---- MODULE Spec2Model ----
(***************************************************************************)
(* Model of the topology graph of src/src/graph/topo.cc: the fixed-capacity *)
(* node store (one array per node type), the per-node link arrays, and the  *)
(* registry operations ncclTopoGetNode, ncclTopoCreateNode,                 *)
(* ncclTopoRemoveNode and ncclTopoConnectNodes.                             *)
(*                                                                         *)
(* Memory is modelled slot by slot: a node pointer is the address of a     *)
(* slot <<type array, index>>, a link holds such a pointer, and slots and   *)
(* link entries past the live count keep whatever was last written there   *)
(* (the arrays are calloc'ed once and never cleared again).                 *)
(***************************************************************************)
EXTENDS Integers, Sequences, FiniteSets, TLC

\* ------------------------------------------------------------------------
\* Bounds of the model
\* ------------------------------------------------------------------------
\* Slots per node array (stands for NCCL_TOPO_MAX_NODES).
MaxNodes == 2
\* Entries per link array (stands for NCCL_TOPO_MAX_LINKS).
MaxLinks == 4
\* Registry calls made in one behaviour of Spec.
MaxSteps == 4

\* ------------------------------------------------------------------------
\* Program constants
\* ------------------------------------------------------------------------
\* Node types, in the order of topoNodeTypeStr.
GPU == 0
PCI == 1
NVS == 2
CPU == 3
NIC == 4
NET == 5
NCCL_TOPO_NODE_TYPES == 6
\* Link types, at their index in topoLinkTypeStr.
LINK_LOC == 0
LINK_NVL == 1
LINK_PCI == 2
LINK_SYS == 5
LINK_NET == 6
\* Width of a GPU's link to itself.
LOC_WIDTH == 5000
NCCL_TOPO_UNDEF == -1

ncclSuccess == "ncclSuccess"
ncclInternalError == "ncclInternalError"

NodeTypes == 0 .. (NCCL_TOPO_NODE_TYPES - 1)
Slots == 0 .. (MaxNodes - 1)
LinkSlots == 0 .. (MaxLinks - 1)

\* The null node pointer; any other pointer is <<type array, slot index>>.
NULL == <<-1, -1>>
Ptr(t, i) == <<t, i>>

\* Memory as calloc leaves it.
ZeroLink == [type |-> 0, remNode |-> NULL, width |-> 0]
ZeroNode ==
  [type |-> 0, id |-> 0, nlinks |-> 0,
   links |-> [l \in LinkSlots |-> ZeroLink],
   gpu |-> [rank |-> 0, cudaCompCap |-> 0],
   cpu |-> [arch |-> 0, vendor |-> 0, model |-> 0, affinity |-> {}]]
\* The cores of the machine, and a path table that the path search has not filled.
Cores == {0, 1}
NoHops == [g \in Slots |-> [c \in Slots |-> 0]]

ZeroSystem ==
  [t \in NodeTypes |-> [count |-> 0, nodes |-> [i \in Slots |-> ZeroNode]]]

VARIABLES
  system,   \* struct ncclTopoSystem: system[t].count, system[t].nodes[i]
  ret,      \* the last call: its name, arguments, result code and out pointer
  fault,    \* "none", or the undefined behaviour the last call ran into
  steps,    \* registry calls made so far
  pc,       \* where ncclTopoGetSystemFromXml stands ("api": registry driven directly)
  stack,    \* the open descriptors of the ingestion walk: the cpu, then pci switches
  xml,      \* bus ids of the gpu-bearing pci descriptors read so far, in document order
  cursor,   \* the descriptor of xml the NVLink walk has reached
  nxml,     \* xml nodes of the description read so far
  mask,     \* the calling thread's scheduling mask: the cores it may run on
  hops,     \* hops[g][c]: nodes[GPU].nodes[g].paths[CPU][c].count, as the path search left it
  nRanks,   \* comm->nRanks: the ranks of the communicator are 0 .. nRanks - 1
  env,      \* NCCL_TOPO_DUMP_FILE (set or not) and NCCL_TOPO_DUMP_FILE_RANK
  ran,      \* the ranks whose ncclTopoGetSystem has returned
  dumped    \* the ranks that have written the description to the dump file

vars == <<system, ret, fault, steps, pc, stack, xml, cursor, nxml, mask, hops,
          nRanks, env, ran, dumped>>
buildVars == <<pc, stack, xml, cursor, nxml>>
affinityVars == <<mask, hops>>
dumpVars == <<nRanks, env, ran, dumped>>

\* One process on its own, nothing asked to be dumped.
NoComm ==
  /\ nRanks = 1
  /\ env = [NCCL_TOPO_DUMP_FILE |-> FALSE, NCCL_TOPO_DUMP_FILE_RANK |-> 0]
  /\ ran = {}
  /\ dumped = {}

\* ------------------------------------------------------------------------
\* Reading memory
\* ------------------------------------------------------------------------
NodeAt(sys, p) == sys[p[1]].nodes[p[2]]
LiveSlots(sys, t) == 0 .. (sys[t].count - 1)
LivePtrs(sys) == {Ptr(t, i) : t \in NodeTypes, i \in Slots} \cap
                 {p \in NodeTypes \X Slots : p[2] < sys[p[1]].count}
\* p >= q on two slot addresses: the arrays lie in type order inside the system.
PtrGeq(p, q) == p[1] > q[1] \/ (p[1] = q[1] /\ p[2] >= q[2])

\* ------------------------------------------------------------------------
\* ncclTopoGetNode: linear scan, *node left as it was on a miss
\* ------------------------------------------------------------------------
\* GetNodeScan that returns after looking at the first slot only.
GetNodeScanFirstSlot(sys, node, type, id, i) ==
  IF i < sys[type].count /\ sys[type].nodes[i].id = id THEN Ptr(type, i) ELSE node

RECURSIVE GetNodeScan(_, _, _, _, _)
GetNodeScan(sys, node, type, id, i) ==
  IF i >= sys[type].count THEN node
  ELSE IF sys[type].nodes[i].id = id THEN Ptr(type, i)
  ELSE GetNodeScan(sys, node, type, id, i + 1)

ncclTopoGetNode(sys, node, type, id) ==
  [res |-> ncclSuccess, node |-> GetNodeScan(sys, node, type, id, 0)]

\* ------------------------------------------------------------------------
\* ncclTopoCreateNode
\* ------------------------------------------------------------------------
\* CreateNodeInit that gives a GPU no entry to itself.
CreateNodeInitNoLoop(old, type, id, n) ==
  [old EXCEPT !.type = type, !.id = id, !.nlinks = 0,
              !.gpu = [rank |-> NCCL_TOPO_UNDEF, cudaCompCap |-> NCCL_TOPO_UNDEF]]

CreateNodeInit(old, type, id, n) ==
  LET base == [old EXCEPT !.type = type, !.id = id] IN
  IF type = GPU
    THEN [base EXCEPT
            !.nlinks = 1,
            !.links[0] = [type |-> LINK_LOC, remNode |-> n, width |-> LOC_WIDTH],
            !.gpu = [rank |-> NCCL_TOPO_UNDEF, cudaCompCap |-> NCCL_TOPO_UNDEF]]
  ELSE IF type = CPU
    THEN [base EXCEPT
            !.cpu.arch = NCCL_TOPO_UNDEF,
            !.cpu.vendor = NCCL_TOPO_UNDEF,
            !.cpu.model = NCCL_TOPO_UNDEF]
  ELSE base

\* ncclTopoCreateNode that reuses the last slot when the array is full.
ncclTopoCreateNodeReuseLast(sys, node, type, id) ==
  LET c == IF sys[type].count = MaxNodes THEN MaxNodes - 1 ELSE sys[type].count
      n == Ptr(type, c)
  IN [res |-> ncclSuccess,
      sys |-> [sys EXCEPT ![type].count = c + 1,
                          ![type].nodes[c] = CreateNodeInit(@, type, id, n)],
      node |-> n]

ncclTopoCreateNode(sys, node, type, id) ==
  IF sys[type].count = MaxNodes
    THEN [res |-> ncclInternalError, sys |-> sys, node |-> node]
  ELSE
    LET c == sys[type].count
        n == Ptr(type, c)
    IN [res |-> ncclSuccess,
        sys |-> [sys EXCEPT ![type].count = c + 1,
                            ![type].nodes[c] = CreateNodeInit(@, type, id, n)],
        node |-> n]

\* ------------------------------------------------------------------------
\* ncclTopoConnectNodes
\* ------------------------------------------------------------------------
\* The scan "for (link = node->links; link->remNode; link++)": the index it
\* stops at, or MaxLinks when it runs off the end of the array.
\* ConnectScan without the test for an existing entry: every call appends.
RECURSIVE ConnectScanNoMatch(_, _, _, _)
ConnectScanNoMatch(links, remNode, type, l) ==
  IF l >= MaxLinks THEN MaxLinks
  ELSE IF links[l].remNode = NULL THEN l
  ELSE ConnectScanNoMatch(links, remNode, type, l + 1)

RECURSIVE ConnectScan(_, _, _, _)
ConnectScan(links, remNode, type, l) ==
  IF l >= MaxLinks THEN MaxLinks
  ELSE IF links[l].remNode = NULL THEN l
  ELSE IF links[l].remNode = remNode /\ links[l].type = type THEN l
  ELSE ConnectScan(links, remNode, type, l + 1)

\* ConnectInsert without the backward move: the entry stays where it was found.
ConnectInsertInPlace(links, linkSave, l) ==
  [links EXCEPT ![l] = linkSave]

\* "Sort links in BW descending order": the saved entry moves backward past
\* every entry of strictly smaller width.
RECURSIVE ConnectInsert(_, _, _)
ConnectInsert(links, linkSave, l) ==
  IF l = 0 THEN [links EXCEPT ![0] = linkSave]
  ELSE IF links[l - 1].width >= linkSave.width THEN [links EXCEPT ![l] = linkSave]
  ELSE ConnectInsert([links EXCEPT ![l] = links[l - 1]], linkSave, l - 1)

ConnectLinks(n, remNode, type, width, l) ==
  LET linkSave == [type |-> type, remNode |-> remNode,
                   width |-> n.links[l].width + width]
  IN [n EXCEPT
        !.nlinks = IF n.links[l].remNode = NULL THEN @ + 1 ELSE @,
        !.links = ConnectInsert(n.links, linkSave, l)]

ncclTopoConnectNodes(sys, node, remNode, type, width) ==
  LET n == NodeAt(sys, node)
      l == ConnectScan(n.links, remNode, type, 0)
  IN IF l >= MaxLinks
       THEN [res |-> ncclSuccess, sys |-> sys, fault |-> "links_overrun"]
     ELSE [res |-> ncclSuccess,
           sys |-> [sys EXCEPT ![node[1]].nodes[node[2]] =
                                 ConnectLinks(n, remNode, type, width, l)],
           fault |-> "none"]

\* ------------------------------------------------------------------------
\* ncclTopoRemoveNode
\* ------------------------------------------------------------------------
\* memmove(links+l, links+l+1, (nlinks-l-1)*sizeof(link)); nlinks--
RemoveShift(n, l) ==
  [n EXCEPT
     !.nlinks = @ - 1,
     !.links = [k \in LinkSlots |->
                  IF k >= l /\ k < n.nlinks - 1 THEN n.links[k + 1] ELSE n.links[k]]]

RECURSIVE RemoveDrop(_, _, _)
RemoveDrop(n, delNode, l) ==
  IF l < n.nlinks /\ n.links[l].remNode = delNode
    THEN RemoveDrop(RemoveShift(n, l), delNode, l)
  ELSE n

\* RemoveRenumber that leaves every entry as it is.
RemoveRenumberSkip(sys, n, delNode, l) == n

RemoveRenumber(sys, n, delNode, l) ==
  IF l < n.nlinks
     /\ NodeAt(sys, n.links[l].remNode).type = delNode[1]
     /\ PtrGeq(n.links[l].remNode, delNode)
    THEN [n EXCEPT !.links[l].remNode = Ptr(@[1], @[2] - 1)]
  ELSE n

RECURSIVE RemoveLinks(_, _, _, _)
RemoveLinks(sys, n, delNode, l) ==
  IF l >= n.nlinks THEN n
  ELSE RemoveLinks(sys, RemoveRenumber(sys, RemoveDrop(n, delNode, l), delNode, l),
                   delNode, l + 1)

\* memmove(delNode, delNode+1, (count-index-1)*sizeof(node)); count--
RemoveCompact(arr, index) ==
  [count |-> arr.count - 1,
   nodes |-> [i \in Slots |->
                IF i >= index /\ i < arr.count - 1 THEN arr.nodes[i + 1]
                ELSE arr.nodes[i]]]

ncclTopoRemoveNode(sys, type, index) ==
  LET delNode == Ptr(type, index)
      swept == [t \in NodeTypes |->
                  [sys[t] EXCEPT !.nodes =
                     [i \in Slots |->
                        IF i < sys[t].count /\ Ptr(t, i) # delNode
                          THEN RemoveLinks(sys, sys[t].nodes[i], delNode, 0)
                        ELSE sys[t].nodes[i]]]]
  IN [res |-> ncclSuccess,
      sys |-> [swept EXCEPT ![type] = RemoveCompact(@, index)]]


\* ------------------------------------------------------------------------
\* The registry driven call by call (Spec)
\* ------------------------------------------------------------------------
ApiTypes == {GPU, PCI}
ApiIds == {0, 1}
ApiLinkTypes == {LINK_NVL, LINK_PCI}
ApiWidths == {1, 2}

NoCall == [op |-> "none", args |-> <<>>, res |-> ncclSuccess, node |-> NULL]

Init ==
  /\ system = ZeroSystem
  /\ ret = NoCall
  /\ fault = "none"
  /\ steps = 0
  /\ pc = "api"
  /\ stack = <<>>
  /\ xml = <<>>
  /\ cursor = 1
  /\ nxml = 0
  /\ mask = Cores
  /\ hops = NoHops
  /\ NoComm

Callable == pc = "api" /\ fault = "none" /\ steps < MaxSteps

\* A caller's lookup: node is what the caller's pointer held before the call.
GetNode ==
  /\ Callable
  /\ \E type \in ApiTypes, id \in ApiIds, node \in {NULL, Ptr(GPU, 0)} :
       LET r == ncclTopoGetNode(system, node, type, id) IN
       /\ ret' = [op |-> "getNode", args |-> <<type, id, node>>, res |-> r.res,
                  node |-> r.node]
       /\ steps' = steps + 1
       /\ UNCHANGED <<system, fault, buildVars, affinityVars, dumpVars>>

CreateNode ==
  /\ Callable
  /\ \E type \in ApiTypes, id \in ApiIds :
       LET r == ncclTopoCreateNode(system, NULL, type, id) IN
       /\ system' = r.sys
       /\ ret' = [op |-> "createNode", args |-> <<type, id>>, res |-> r.res,
                  node |-> r.node]
       /\ steps' = steps + 1
       /\ UNCHANGED <<fault, buildVars, affinityVars, dumpVars>>

\* The upsert of ncclTopoAddPci and ncclTopoAddCpu: look up, create on a miss.
GetOrCreate(sys, type, id) ==
  LET g == ncclTopoGetNode(sys, NULL, type, id) IN
  IF g.node = NULL THEN ncclTopoCreateNode(sys, NULL, type, id)
  ELSE [res |-> ncclSuccess, sys |-> sys, node |-> g.node]

GetOrCreateNode ==
  /\ Callable
  /\ \E type \in ApiTypes, id \in ApiIds :
       LET r == GetOrCreate(system, type, id) IN
       /\ system' = r.sys
       /\ ret' = [op |-> "getOrCreate", args |-> <<type, id>>, res |-> r.res,
                  node |-> r.node]
       /\ steps' = steps + 1
       /\ UNCHANGED <<fault, buildVars, affinityVars, dumpVars>>

ConnectNodes ==
  /\ Callable
  /\ \E node \in LivePtrs(system), remNode \in LivePtrs(system),
        type \in ApiLinkTypes, width \in ApiWidths :
       LET r == ncclTopoConnectNodes(system, node, remNode, type, width) IN
       /\ system' = r.sys
       /\ fault' = r.fault
       /\ ret' = [op |-> "connectNodes", args |-> <<node, remNode, type, width>>,
                  res |-> r.res, node |-> NULL]
       /\ steps' = steps + 1
       /\ UNCHANGED <<buildVars, affinityVars, dumpVars>>

RemoveNode ==
  /\ Callable
  /\ \E p \in LivePtrs(system) :
       LET r == ncclTopoRemoveNode(system, p[1], p[2]) IN
       /\ system' = r.sys
       /\ ret' = [op |-> "removeNode", args |-> p, res |-> r.res, node |-> NULL]
       /\ steps' = steps + 1
       /\ UNCHANGED <<fault, buildVars, affinityVars, dumpVars>>

Next ==
  \/ GetNode
  \/ CreateNode
  \/ GetOrCreateNode
  \/ ConnectNodes
  \/ RemoveNode

Spec == Init /\ [][Next]_vars

\* Nodes are created and connected, never removed.
NextConnect ==
  \/ CreateNode
  \/ ConnectNodes

SpecConnect == Init /\ [][NextConnect]_vars

\* Nodes are created by the upsert only.
NextUpsert ==
  \/ GetNode
  \/ GetOrCreateNode
  \/ ConnectNodes
  \/ RemoveNode

SpecUpsert == Init /\ [][NextUpsert]_vars

\* ------------------------------------------------------------------------
\* The hardware description read by ncclTopoGetSystemFromXml
\* ------------------------------------------------------------------------
\* xml nodes (cpu, pci, nic, nvlink) in one description.
MaxXml == 4

NCCL_TOPO_CPU_ARCH_X86 == 1
NCCL_TOPO_CPU_ARCH_POWER == 2
NCCL_TOPO_CPU_ARCH_ARM == 3
NCCL_TOPO_CPU_VENDOR_INTEL == 1
NCCL_TOPO_CPU_VENDOR_AMD == 2
NCCL_TOPO_CPU_INTEL_BDW == 1
NCCL_TOPO_CPU_TYPE_SKL == 2
PASCAL_NVLINK_WIDTH == 18
VOLTA_NVLINK_WIDTH == 21
QPI_WIDTH == 8
SKL_QPI_WIDTH == 12
P9_WIDTH == 32
ARM_WIDTH == 6

kvDictPciClass ==
  [str \in {"0x060400", "0x068000", "0x068001", "0x030200", "0x030000",
            "0x020700", "0x020000"} |->
     CASE str = "0x060400" -> PCI
       [] str = "0x068000" -> NVS
       [] str = "0x068001" -> CPU
       [] str \in {"0x030200", "0x030000"} -> GPU
       [] OTHER -> NIC]
kvDictPciGen ==
  [str \in {"2.5 GT/s", "5 GT/s", "8 GT/s", "16 GT/s"} |->
     CASE str = "2.5 GT/s" -> 15
       [] str = "5 GT/s" -> 30
       [] str = "8 GT/s" -> 60
       [] OTHER -> 120]
kvDictCpuArch ==
  [str \in {"x86_64", "arm64", "ppc64"} |->
     CASE str = "x86_64" -> NCCL_TOPO_CPU_ARCH_X86
       [] str = "arm64" -> NCCL_TOPO_CPU_ARCH_ARM
       [] OTHER -> NCCL_TOPO_CPU_ARCH_POWER]
kvDictCpuVendor ==
  [str \in {"GenuineIntel", "AuthenticAMD"} |->
     IF str = "GenuineIntel" THEN NCCL_TOPO_CPU_VENDOR_INTEL
     ELSE NCCL_TOPO_CPU_VENDOR_AMD]
\* The value of the first matching key, else that of the table's end marker.
kvConvertToInt(str, dict) == IF str \in DOMAIN dict THEN dict[str] ELSE 0

\* Bus ids as busIdToInt64 returns them: "0000:00:01.0" and "0000:00:01.1".
BusIds == {16, 17}
NumaIds == {0, 1}
\* affinity: the cores the attribute names, hasAffinity: whether it is there.
CpuDescs ==
  {[arch |-> "x86_64", vendor |-> "GenuineIntel", familyid |-> 6, modelid |-> 85,
    hasAffinity |-> TRUE, affinity |-> {0}],
   [arch |-> "ppc64", vendor |-> "", familyid |-> 0, modelid |-> 0,
    hasAffinity |-> FALSE, affinity |-> {}]}
\* A gpu sub-descriptor: without a rank attribute, or with one.
GpuDescs ==
  {[hasRank |-> FALSE, rank |-> 0, sm |-> 70],
   [hasRank |-> TRUE, rank |-> 0, sm |-> 70]}
\* link_width and link_speed as /sys gives them: 0 and "" when it does not.
\* Bridges come with a width and a speed, known or not; gpu and nic devices
\* with neither.
PciLinkDescs ==
  {[link_width |-> 8, link_speed |-> "Unknown speed"],
   [link_width |-> 16, link_speed |-> "16 GT/s"]}
DeviceLinkDescs == {[link_width |-> 0, link_speed |-> ""]}
\* The id attribute of a nic descriptor directly below a cpu descriptor.
NicIds == {0}
\* The net sub-descriptors of a nic: one port at 8 Gb/sec.
NicDescs == {<<[dev |-> 0, speed |-> 0, link_rate |-> 8]>>}
NvLinkDescs ==
  {[tclass |-> "0x030200", target |-> b, count |-> 1] : b \in BusIds} \cup
  {[tclass |-> "0x068001", target |-> 0, count |-> c] : c \in {1, 2}} \cup
  {[tclass |-> "0x068000", target |-> 0, count |-> 1]}

\* The sequences over S of lo to hi elements.
SeqsUpTo(S, lo, hi) == UNION {[1 .. n -> S] : n \in lo .. hi}

Done(sys) == [res |-> ncclSuccess, sys |-> sys, fault |-> "none"]
Failed(sys) == [res |-> ncclInternalError, sys |-> sys, fault |-> "none"]

\* The two calls every builder makes: node -> remNode, then remNode -> node.
ConnectBoth(sys, node, remNode, type, width) ==
  LET r == ncclTopoConnectNodes(sys, node, remNode, type, width) IN
  IF r.fault # "none" THEN r
  ELSE ncclTopoConnectNodes(r.sys, remNode, node, type, width)

\* ------------------------------------------------------------------------
\* ncclTopoAddNet, ncclTopoAddNic
\* ------------------------------------------------------------------------
NetWidth(xmlNet) ==
  LET mbps0 == IF xmlNet.link_rate # 0 THEN xmlNet.link_rate * 1000 ELSE xmlNet.speed
      mbps == IF mbps0 <= 0 THEN 10000 ELSE mbps0
  IN mbps \div 8000

ncclTopoAddNet(sys, xmlNet, nic) ==
  LET c == ncclTopoCreateNode(sys, NULL, NET, xmlNet.dev) IN
  IF c.res # ncclSuccess THEN Failed(c.sys)
  ELSE ConnectBoth(c.sys, nic, c.node, LINK_NET, NetWidth(xmlNet))

RECURSIVE AddNicSubs(_, _, _, _)
AddNicSubs(sys, xmlNic, nic, s) ==
  IF s > Len(xmlNic) THEN Done(sys)
  ELSE LET r == ncclTopoAddNet(sys, xmlNic[s], nic) IN
       IF r.res # ncclSuccess \/ r.fault # "none" THEN r
       ELSE AddNicSubs(r.sys, xmlNic, nic, s + 1)

ncclTopoAddNic(sys, xmlNic, nic) == AddNicSubs(sys, xmlNic, nic, 1)

\* ------------------------------------------------------------------------
\* ncclTopoAddGpu, ncclTopoAddPci
\* ------------------------------------------------------------------------
ncclTopoAddGpu(sys, xmlGpu, gpu) ==
  [sys EXCEPT ![gpu[1]].nodes[gpu[2]].gpu =
     [rank |-> xmlGpu.rank, cudaCompCap |-> xmlGpu.sm]]

\* PciWidth without the fallbacks.
PciWidthAsGiven(xmlPci) ==
  (xmlPci.link_width * kvConvertToInt(xmlPci.link_speed, kvDictPciGen)) \div 80

\* width*speed/80.0 with the fallbacks for what /sys did not give.
PciWidth(xmlPci) ==
  LET width == IF xmlPci.link_width = 0 THEN 16 ELSE xmlPci.link_width
      str == IF xmlPci.link_speed \in {"", "Unknown speed"} THEN "8 GT/s"
             ELSE xmlPci.link_speed
      speed == kvConvertToInt(str, kvDictPciGen)
  IN (width * speed) \div 80

\* The tail of ncclTopoAddPci: "if (node)" connects it to its parent both ways.
AddPciConnect(sys, xmlPci, node, parent) ==
  ConnectBoth(sys, node, parent, LINK_PCI, PciWidth(xmlPci))

\* The gpu-class descriptor that makes a node with or without a rank.
AddPciGpuAnyRank(sys, xmlPci, xmlGpu, parent) ==
  LET c == ncclTopoCreateNode(sys, NULL, GPU, xmlPci.busid) IN
  IF c.res # ncclSuccess THEN Failed(c.sys)
  ELSE AddPciConnect(ncclTopoAddGpu(c.sys, xmlGpu, c.node), xmlPci, c.node, parent)

\* A pci descriptor of gpu class.
AddPciGpu(sys, xmlPci, xmlGpu, parent) ==
  IF ~xmlGpu.hasRank THEN Done(sys)
  ELSE LET c == ncclTopoCreateNode(sys, NULL, GPU, xmlPci.busid) IN
       IF c.res # ncclSuccess THEN Failed(c.sys)
       ELSE AddPciConnect(ncclTopoAddGpu(c.sys, xmlGpu, c.node), xmlPci, c.node, parent)

\* A pci descriptor of nic class: sub-devices merge into the node of function 0.
\* NicBusId that keeps the function bits.
NicBusIdWhole(busId) == busId

NicBusId(busId) == busId - (busId % 16)

AddPciNic(sys, xmlPci, xmlNic, parent) ==
  LET busId == NicBusId(xmlPci.busid)
      g == ncclTopoGetNode(sys, NULL, NIC, busId)
      c == IF g.node = NULL THEN ncclTopoCreateNode(sys, NULL, NIC, busId)
           ELSE [res |-> ncclSuccess, sys |-> sys, node |-> g.node]
  IN IF c.res # ncclSuccess THEN Failed(c.sys)
     ELSE LET r == ncclTopoAddNic(c.sys, xmlNic, c.node) IN
          IF r.res # ncclSuccess \/ r.fault # "none" THEN r
          ELSE IF g.node = NULL THEN AddPciConnect(r.sys, xmlPci, c.node, parent)
          ELSE r

\* ------------------------------------------------------------------------
\* ncclTopoAddCpu
\* ------------------------------------------------------------------------
\* old: the payload the slot holds when the descriptor is read.
CpuModel(old, xmlCpu) ==
  LET arch == kvConvertToInt(xmlCpu.arch, kvDictCpuArch)
      vendor == IF arch = NCCL_TOPO_CPU_ARCH_X86
                  THEN kvConvertToInt(xmlCpu.vendor, kvDictCpuVendor)
                ELSE NCCL_TOPO_UNDEF
      model == IF arch = NCCL_TOPO_CPU_ARCH_X86 /\ vendor = NCCL_TOPO_CPU_VENDOR_INTEL
                 THEN IF xmlCpu.familyid = 6 /\ xmlCpu.modelid >= 85
                        THEN NCCL_TOPO_CPU_TYPE_SKL
                      ELSE NCCL_TOPO_CPU_INTEL_BDW
               ELSE NCCL_TOPO_UNDEF
  IN [arch |-> arch, vendor |-> vendor, model |-> model,
      affinity |-> IF xmlCpu.hasAffinity THEN xmlCpu.affinity ELSE old.affinity]

\* The head of ncclTopoAddCpu, up to the loop over the descriptor's subs.
AddCpuHead(sys, numaId, xmlCpu) ==
  LET c == ncclTopoCreateNode(sys, NULL, CPU, numaId) IN
  IF c.res # ncclSuccess THEN [res |-> c.res, sys |-> c.sys, node |-> NULL]
  ELSE [res |-> ncclSuccess,
        sys |-> [c.sys EXCEPT ![CPU].nodes[c.node[2]].cpu = CpuModel(@, xmlCpu)],
        node |-> c.node]

\* A nic descriptor directly below the cpu descriptor.
AddCpuNic(sys, id, xmlNic, cpu) ==
  LET g == ncclTopoGetNode(sys, NULL, NIC, id) IN
  IF g.node # NULL THEN ncclTopoAddNic(sys, xmlNic, g.node)
  ELSE LET c == ncclTopoCreateNode(sys, NULL, NIC, id) IN
       IF c.res # ncclSuccess THEN Failed(c.sys)
       ELSE LET r == ConnectBoth(c.sys, cpu, c.node, LINK_PCI, LOC_WIDTH) IN
            IF r.fault # "none" THEN r
            ELSE ncclTopoAddNic(r.sys, xmlNic, c.node)

\* ------------------------------------------------------------------------
\* findLocalCpu, ncclTopoAddNvLinks
\* ------------------------------------------------------------------------
\* onStack: the nodes whose call is still open. A call on one of them repeats
\* that call and never returns.
RECURSIVE findLocalCpu(_, _, _)
RECURSIVE FindLocalCpuLinks(_, _, _, _)
findLocalCpu(sys, node, onStack) ==
  IF NodeAt(sys, node).type = CPU THEN [cpu |-> node, fault |-> "none"]
  ELSE IF node \in onStack THEN [cpu |-> NULL, fault |-> "findLocalCpu_recursion"]
  ELSE FindLocalCpuLinks(sys, node, onStack \cup {node}, 0)
FindLocalCpuLinks(sys, node, onStack, l) ==
  IF l >= NodeAt(sys, node).nlinks THEN [cpu |-> NULL, fault |-> "none"]
  ELSE LET link == NodeAt(sys, node).links[l]
           r == IF link.type = LINK_PCI THEN findLocalCpu(sys, link.remNode, onStack)
                ELSE [cpu |-> NULL, fault |-> "none"]
       IN IF r.fault # "none" \/ r.cpu # NULL THEN r
          ELSE FindLocalCpuLinks(sys, node, onStack, l + 1)

\* The reverse entry that is written for every kind of remote.
NvlReverseAlways(remoteType) == TRUE

\* Whether the remote gets an entry back to the GPU.
NvlReverse(remoteType) == remoteType # GPU

\* The switch that is made anew for every leaf.
NvsRemoteAlwaysNew(sys) ==
  LET c == ncclTopoCreateNode(sys, NULL, NVS, 0) IN
  [res |-> c.res, sys |-> c.sys, fault |-> "none", node |-> c.node]

\* The remote of a leaf whose target is neither a GPU nor a CPU.
NvsRemote(sys) ==
  IF sys[NVS].count = 0
    THEN LET c == ncclTopoCreateNode(sys, NULL, NVS, 0) IN
         [res |-> c.res, sys |-> c.sys, fault |-> "none", node |-> c.node]
  ELSE [res |-> ncclSuccess, sys |-> sys, fault |-> "none", node |-> Ptr(NVS, 0)]

\* The outcome r of the leaf, with the remote it was resolved to.
NvlResult(r, remote) ==
  [res |-> r.res, sys |-> r.sys, fault |-> r.fault, node |-> remote]

\* One nvlink leaf below the descriptor with bus id parentBusId.
ncclTopoAddNvLinks(sys, xmlNvl, parentBusId) ==
  LET gpu == ncclTopoGetNode(sys, NULL, GPU, parentBusId).node IN
  IF gpu = NULL THEN NvlResult(Failed(sys), NULL)
  ELSE
    LET targetType == kvConvertToInt(xmlNvl.tclass, kvDictPciClass)
        found == IF targetType = GPU
                   THEN [res |-> ncclSuccess, sys |-> sys, fault |-> "none",
                         node |-> ncclTopoGetNode(sys, NULL, GPU, xmlNvl.target).node]
                 ELSE IF targetType = CPU
                   THEN LET f == findLocalCpu(sys, gpu, {}) IN
                        [res |-> ncclSuccess, sys |-> sys, fault |-> f.fault,
                         node |-> f.cpu]
                 ELSE NvsRemote(sys)
        remote == found.node
        nvlSpeed == IF NodeAt(sys, gpu).gpu.cudaCompCap = 60 THEN PASCAL_NVLINK_WIDTH
                    ELSE VOLTA_NVLINK_WIDTH
    IN IF found.res # ncclSuccess \/ found.fault # "none"
         THEN NvlResult(found, remote)
       ELSE IF remote = NULL THEN NvlResult(Done(found.sys), NULL)
       ELSE LET r == ncclTopoConnectNodes(found.sys, gpu, remote, LINK_NVL,
                                          xmlNvl.count * nvlSpeed)
            IN IF r.fault # "none" \/ ~NvlReverse(NodeAt(r.sys, remote).type)
                 THEN NvlResult(r, remote)
               ELSE NvlResult(ncclTopoConnectNodes(r.sys, remote, gpu, LINK_NVL,
                                                   xmlNvl.count * nvlSpeed), remote)

\* ------------------------------------------------------------------------
\* ncclTopoGetInterCpuWidth, ncclTopoConnectCpus
\* ------------------------------------------------------------------------
\* The width that takes every Intel CPU for one of the older models.
InterCpuWidthNoModel(cpu) ==
  IF cpu.cpu.arch = NCCL_TOPO_CPU_ARCH_POWER THEN P9_WIDTH
  ELSE IF cpu.cpu.arch = NCCL_TOPO_CPU_ARCH_ARM THEN ARM_WIDTH
  ELSE IF cpu.cpu.arch = NCCL_TOPO_CPU_ARCH_X86
          /\ cpu.cpu.vendor = NCCL_TOPO_CPU_VENDOR_INTEL
    THEN QPI_WIDTH
  ELSE LOC_WIDTH

ncclTopoGetInterCpuWidth(cpu) ==
  IF cpu.cpu.arch = NCCL_TOPO_CPU_ARCH_POWER THEN P9_WIDTH
  ELSE IF cpu.cpu.arch = NCCL_TOPO_CPU_ARCH_ARM THEN ARM_WIDTH
  ELSE IF cpu.cpu.arch = NCCL_TOPO_CPU_ARCH_X86
          /\ cpu.cpu.vendor = NCCL_TOPO_CPU_VENDOR_INTEL
    THEN IF cpu.cpu.model = NCCL_TOPO_CPU_TYPE_SKL THEN SKL_QPI_WIDTH ELSE QPI_WIDTH
  ELSE LOC_WIDTH

\* The double loop over n and p, from the pair (n, p) on.
RECURSIVE ConnectCpusFrom(_, _, _)
ConnectCpusFrom(sys, n, p) ==
  IF n >= sys[CPU].count THEN Done(sys)
  ELSE IF p >= sys[CPU].count THEN ConnectCpusFrom(sys, n + 1, 0)
  ELSE IF n = p THEN ConnectCpusFrom(sys, n, p + 1)
  ELSE LET r == ncclTopoConnectNodes(sys, Ptr(CPU, n), Ptr(CPU, p), LINK_SYS,
                                     ncclTopoGetInterCpuWidth(sys[CPU].nodes[n]))
       IN IF r.fault # "none" THEN r ELSE ConnectCpusFrom(r.sys, n, p + 1)

ncclTopoConnectCpus(sys) == ConnectCpusFrom(sys, 0, 0)

\* ------------------------------------------------------------------------
\* ncclTopoSort, ncclTopoSortSystem
\* ------------------------------------------------------------------------
\* "while (node->links[l].remNode != upNode) l++": MaxLinks when it leaves the array.
RECURSIVE SortFindUp(_, _, _)
SortFindUp(links, upNode, l) ==
  IF l >= MaxLinks THEN MaxLinks
  ELSE IF links[l].remNode = upNode THEN l
  ELSE SortFindUp(links, upNode, l + 1)

\* The shift that does not write the saved entry back behind the others.
RECURSIVE SortShiftUpNoRestore(_, _, _)
SortShiftUpNoRestore(links, upLink, l) ==
  IF l + 1 >= MaxLinks THEN [links |-> links, fault |-> "links_overrun"]
  ELSE IF links[l + 1].remNode # NULL
    THEN SortShiftUpNoRestore([links EXCEPT ![l] = links[l + 1]], upLink, l + 1)
  ELSE [links |-> links, fault |-> "none"]

\* "while (node->links[l+1].remNode)": the entries after l move one place up.
RECURSIVE SortShiftUp(_, _, _)
SortShiftUp(links, upLink, l) ==
  IF l + 1 >= MaxLinks THEN [links |-> links, fault |-> "links_overrun"]
  ELSE IF links[l + 1].remNode # NULL
    THEN SortShiftUp([links EXCEPT ![l] = links[l + 1]], upLink, l + 1)
  ELSE [links |-> [links EXCEPT ![l] = upLink], fault |-> "none"]

\* SortUpLinkLast that puts upLink first instead: the entries before it move down.
SortUpLinkFirst(n, upNode) ==
  LET l == SortFindUp(n.links, upNode, 0) IN
  IF l >= MaxLinks THEN [links |-> n.links, fault |-> "links_overrun"]
  ELSE [links |-> [k \in LinkSlots |->
                     IF k = 0 THEN n.links[l]
                     ELSE IF k <= l THEN n.links[k - 1]
                     ELSE n.links[k]],
        fault |-> "none"]

\* "Shift all links to have upLink as last link"
SortUpLinkLast(n, upNode) ==
  LET l == SortFindUp(n.links, upNode, 0) IN
  IF l >= MaxLinks THEN [links |-> n.links, fault |-> "links_overrun"]
  ELSE SortShiftUp(n.links, n.links[l], l)

RECURSIVE ncclTopoSort(_, _, _)
RECURSIVE SortSubtrees(_, _, _, _)
ncclTopoSort(sys, node, upNode) ==
  IF upNode = NULL THEN SortSubtrees(sys, node, upNode, 0)
  ELSE LET s == SortUpLinkLast(NodeAt(sys, node), upNode) IN
       IF s.fault # "none" THEN [res |-> ncclSuccess, sys |-> sys, fault |-> s.fault]
       ELSE SortSubtrees([sys EXCEPT ![node[1]].nodes[node[2]].links = s.links],
                         node, upNode, 0)
SortSubtrees(sys, node, upNode, l) ==
  IF l >= NodeAt(sys, node).nlinks THEN Done(sys)
  ELSE LET link == NodeAt(sys, node).links[l] IN
       IF link.type = LINK_PCI /\ link.remNode # upNode
         THEN LET r == ncclTopoSort(sys, link.remNode, node) IN
              IF r.fault # "none" THEN r ELSE SortSubtrees(r.sys, node, upNode, l + 1)
       ELSE SortSubtrees(sys, node, upNode, l + 1)

RECURSIVE SortSystemFrom(_, _)
SortSystemFrom(sys, n) ==
  IF n >= sys[CPU].count THEN Done(sys)
  ELSE LET r == ncclTopoSort(sys, Ptr(CPU, n), NULL) IN
       IF r.fault # "none" THEN r ELSE SortSystemFrom(r.sys, n + 1)

ncclTopoSortSystem(sys) == SortSystemFrom(sys, 0)

\* ------------------------------------------------------------------------
\* ncclTopoGetSystemFromXml, one step per xml node it visits
\* ------------------------------------------------------------------------
InitBuild ==
  /\ system = ZeroSystem
  /\ ret = NoCall
  /\ fault = "none"
  /\ steps = 0
  /\ pc = "ingest"
  /\ stack = <<>>
  /\ xml = <<>>
  /\ cursor = 1
  /\ nxml = 0
  /\ mask = Cores
  /\ hops = NoHops
  /\ NoComm

Reading(at) == pc = at /\ fault = "none" /\ nxml < MaxXml
\* The loop over the cpu descriptors has ended: no descriptor is open below one.
CpusRead == fault = "none" /\ (pc = "nvlinks" \/ (pc = "ingest" /\ Len(stack) <= 1))
Top == stack[Len(stack)]
Called(op, args, r) == [op |-> op, args |-> args, res |-> r.res, node |-> NULL]

\* NCCLCHECK: the first failing call ends the build, whatever was built stays.
Checked(r, next) ==
  /\ system' = r.sys
  /\ fault' = r.fault
  /\ pc' = IF r.res = ncclSuccess THEN next ELSE "failed"

\* A cpu descriptor opens, the one before it, if any, has no more subs.
AddCpu ==
  /\ Reading("ingest")
  /\ Len(stack) <= 1
  /\ \E numaId \in NumaIds, xmlCpu \in CpuDescs :
       LET r == AddCpuHead(system, numaId, xmlCpu) IN
       /\ system' = r.sys
       /\ pc' = IF r.res = ncclSuccess THEN "ingest" ELSE "failed"
       /\ stack' = IF r.res = ncclSuccess THEN <<r.node>> ELSE <<>>
       /\ ret' = [op |-> "addCpu", args |-> <<numaId>>, res |-> r.res, node |-> r.node]
       /\ nxml' = nxml + 1
       /\ UNCHANGED <<fault, steps, xml, cursor, affinityVars, dumpVars>>

\* A pci descriptor of gpu class with a gpu sub-descriptor.
AddGpuPci ==
  /\ Reading("ingest")
  /\ Len(stack) >= 1
  /\ \E busid \in BusIds, xmlGpu \in GpuDescs, link \in DeviceLinkDescs :
       LET xmlPci == [busid |-> busid, link_width |-> link.link_width,
                      link_speed |-> link.link_speed]
           r == AddPciGpu(system, xmlPci, xmlGpu, Top)
       IN /\ Checked(r, "ingest")
          /\ stack' = IF r.res = ncclSuccess THEN stack ELSE <<>>
          /\ xml' = Append(xml, busid)
          /\ ret' = Called("addPciGpu", <<busid, xmlGpu.hasRank>>, r)
          /\ nxml' = nxml + 1
          /\ UNCHANGED <<steps, cursor, affinityVars, dumpVars>>

\* A pci descriptor of nic class with a nic sub-descriptor.
AddNicPci ==
  /\ Reading("ingest")
  /\ Len(stack) >= 1
  /\ \E busid \in BusIds, xmlNic \in NicDescs, link \in DeviceLinkDescs :
       LET xmlPci == [busid |-> busid, link_width |-> link.link_width,
                      link_speed |-> link.link_speed]
           r == AddPciNic(system, xmlPci, xmlNic, Top)
       IN /\ Checked(r, "ingest")
          /\ stack' = IF r.res = ncclSuccess THEN stack ELSE <<>>
          /\ ret' = Called("addPciNic", <<busid>>, r)
          /\ nxml' = nxml + 1
          /\ UNCHANGED <<steps, xml, cursor, affinityVars, dumpVars>>

\* A pci descriptor of bridge class opens: its node is created, its subs follow.
OpenPci ==
  /\ Reading("ingest")
  /\ Len(stack) >= 1
  /\ \E busid \in BusIds :
       LET c == ncclTopoCreateNode(system, NULL, PCI, busid) IN
       /\ system' = c.sys
       /\ pc' = IF c.res = ncclSuccess THEN "ingest" ELSE "failed"
       /\ stack' = IF c.res = ncclSuccess THEN Append(stack, c.node) ELSE <<>>
       /\ ret' = [op |-> "openPci", args |-> <<busid>>, res |-> c.res, node |-> c.node]
       /\ nxml' = nxml + 1
       /\ UNCHANGED <<fault, steps, xml, cursor, affinityVars, dumpVars>>

\* Its subs are done: link_width and link_speed are read, the switch is connected.
ClosePci ==
  /\ pc = "ingest" /\ fault = "none"
  /\ Len(stack) >= 2
  /\ \E xmlPci \in PciLinkDescs :
       LET r == AddPciConnect(system, xmlPci, Top, stack[Len(stack) - 1]) IN
       /\ Checked(r, "ingest")
       /\ stack' = SubSeq(stack, 1, Len(stack) - 1)
       /\ ret' = Called("closePci", <<Top, stack[Len(stack) - 1], xmlPci>>, r)
       /\ UNCHANGED <<steps, xml, cursor, nxml, affinityVars, dumpVars>>

\* A nic descriptor directly below the cpu descriptor.
AddNicCpu ==
  /\ Reading("ingest")
  /\ Len(stack) = 1
  /\ \E id \in NicIds, xmlNic \in NicDescs :
       LET r == AddCpuNic(system, id, xmlNic, Top) IN
       /\ Checked(r, "ingest")
       /\ stack' = IF r.res = ncclSuccess THEN stack ELSE <<>>
       /\ ret' = Called("addCpuNic", <<id>>, r)
       /\ nxml' = nxml + 1
       /\ UNCHANGED <<steps, xml, cursor, affinityVars, dumpVars>>

\* The second pass meets an nvlink leaf, below the i-th gpu-class descriptor.
AddNvLink ==
  /\ CpusRead /\ nxml < MaxXml
  /\ \E i \in cursor..Len(xml), xmlNvl \in NvLinkDescs :
       LET r == ncclTopoAddNvLinks(system, xmlNvl, xml[i]) IN
       /\ Checked(r, "nvlinks")
       /\ cursor' = i
       /\ ret' = [op |-> "addNvLink", res |-> r.res, node |-> r.node,
                  args |-> <<xml[i], xmlNvl.tclass, xmlNvl.target, xmlNvl.count>>]
       /\ nxml' = nxml + 1
       /\ stack' = <<>>
       /\ UNCHANGED <<steps, xml, affinityVars, dumpVars>>

\* The second pass has no more leaves: the description is not read again.
ConnectCpus ==
  /\ CpusRead
  /\ LET r == ncclTopoConnectCpus(system) IN
     /\ Checked(r, "sort")
     /\ ret' = Called("connectCpus", <<>>, r)
  /\ stack' = <<>>
  /\ xml' = <<>>
  /\ cursor' = 1
  /\ nxml' = 0
  /\ UNCHANGED <<steps, affinityVars, dumpVars>>

SortSystem ==
  /\ pc = "sort" /\ fault = "none"
  /\ LET r == ncclTopoSortSystem(system) IN
     /\ Checked(r, "done")
     /\ ret' = Called("sortSystem", <<>>, r)
  /\ UNCHANGED <<steps, stack, xml, cursor, nxml, affinityVars, dumpVars>>

\* A node is removed from a graph that create and connect calls have built, by
\* hand or from a description.
TrimNode ==
  /\ pc \in {"api", "done"} /\ fault = "none"
  /\ \E p \in LivePtrs(system) :
       LET r == ncclTopoRemoveNode(system, p[1], p[2]) IN
       /\ system' = r.sys
       /\ pc' = "trimmed"
       /\ ret' = [op |-> "removeNode", args |-> p, res |-> r.res, node |-> NULL]
  /\ UNCHANGED <<fault, steps, stack, xml, cursor, nxml, affinityVars, dumpVars>>

NextBuild ==
  \/ AddCpu
  \/ AddGpuPci
  \/ AddNicPci
  \/ OpenPci
  \/ ClosePci
  \/ AddNicCpu
  \/ AddNvLink
  \/ ConnectCpus
  \/ SortSystem

SpecBuild == InitBuild /\ [][NextBuild]_vars

NextTrim ==
  \/ NextBuild
  \/ TrimNode

SpecTrim == InitBuild /\ [][NextTrim]_vars

\* The graph after the first pass over a description with one cpu descriptor
\* and, below it, a gpu-class pci descriptor for every bus id.
RECURSIVE IngestGpus(_, _, _, _)
IngestGpus(sys, busids, xmlGpu, cpu) ==
  IF busids = {} THEN sys
  ELSE LET b == CHOOSE x \in busids : \A y \in busids : x <= y
           xmlPci == [busid |-> b, link_width |-> 0, link_speed |-> ""]
       IN IngestGpus(AddPciGpu(sys, xmlPci, xmlGpu, cpu).sys, busids \ {b}, xmlGpu, cpu)

IngestCpuWithGpus(xmlCpu, xmlGpu) ==
  LET c == AddCpuHead(ZeroSystem, 0, xmlCpu) IN
  IngestGpus(c.sys, BusIds, xmlGpu, c.node)

\* The second pass alone, over the leaves of such a description.
InitNvLinks ==
  /\ \E xmlCpu \in CpuDescs, xmlGpu \in {d \in GpuDescs : d.hasRank} :
       system = IngestCpuWithGpus(xmlCpu, xmlGpu)
  /\ ret = NoCall
  /\ fault = "none"
  /\ steps = 0
  /\ pc = "nvlinks"
  /\ stack = <<>>
  /\ xml = <<16, 17>>
  /\ cursor = 1
  /\ nxml = 0
  /\ mask = Cores
  /\ hops = NoHops
  /\ NoComm

NextNvLinks == AddNvLink

SpecNvLinks == InitNvLinks /\ [][NextNvLinks]_vars

\* cpu descriptors of every kind ncclTopoGetInterCpuWidth tells apart, and one
\* of an architecture the table does not list.
FabricCpuDescs ==
  {[arch |-> a[1], vendor |-> a[2], familyid |-> a[3], modelid |-> a[4],
    hasAffinity |-> FALSE, affinity |-> {}] :
     a \in {<<"x86_64", "GenuineIntel", 6, 85>>, <<"x86_64", "GenuineIntel", 6, 79>>,
            <<"x86_64", "AuthenticAMD", 23, 49>>, <<"ppc64", "", 0, 0>>,
            <<"arm64", "", 0, 0>>, <<"riscv64", "", 0, 0>>}}

\* The graph after the first pass over cpu descriptors without subs, numaid i
\* for the i-th.
RECURSIVE IngestCpus(_, _, _)
IngestCpus(sys, xmlCpus, i) ==
  IF i > Len(xmlCpus) THEN sys
  ELSE IngestCpus(AddCpuHead(sys, i - 1, xmlCpus[i]).sys, xmlCpus, i + 1)

\* The CPU fabric pass and the sort, after a description without nvlink leaves.
InitCpus ==
  /\ \E xmlCpus \in SeqsUpTo(FabricCpuDescs, 1, MaxNodes) :
       system = IngestCpus(ZeroSystem, xmlCpus, 1)
  /\ ret = NoCall
  /\ fault = "none"
  /\ steps = 0
  /\ pc = "nvlinks"
  /\ stack = <<>>
  /\ xml = <<>>
  /\ cursor = 1
  /\ nxml = 0
  /\ mask = Cores
  /\ hops = NoHops
  /\ NoComm

NextCpus ==
  \/ ConnectCpus
  \/ SortSystem

SpecCpus == InitCpus /\ [][NextCpus]_vars

NextRemove ==
  \/ CreateNode
  \/ ConnectNodes
  \/ TrimNode

SpecRemove == Init /\ [][NextRemove]_vars

\* ------------------------------------------------------------------------
\* ncclTopoSetAffinity
\* ------------------------------------------------------------------------
Ranks == {0, 1}
HopCounts == {1, 2}
\* What a cpu descriptor's affinity attribute can leave in a CPU node.
CpuMasks == {{0}, {1}}

\* The scan that lets a later CPU at the same distance replace the earlier one.
RECURSIVE CloserCpuLastTie(_, _, _, _, _)
CloserCpuLastTie(sys, row, c, cpuIndex, minHops) ==
  IF c >= sys[CPU].count THEN cpuIndex
  ELSE IF cpuIndex = -1 \/ row[c] <= minHops
    THEN CloserCpuLastTie(sys, row, c + 1, c, row[c])
  ELSE CloserCpuLastTie(sys, row, c + 1, cpuIndex, minHops)

\* "Find closer CPU": the loop over c, with cpuIndex and minHops as it goes.
RECURSIVE CloserCpu(_, _, _, _, _)
CloserCpu(sys, row, c, cpuIndex, minHops) ==
  IF c >= sys[CPU].count THEN cpuIndex
  ELSE IF cpuIndex = -1 \/ row[c] < minHops THEN CloserCpu(sys, row, c + 1, c, row[c])
  ELSE CloserCpu(sys, row, c + 1, cpuIndex, minHops)

\* The loop over g: cpu is what the GPUs of the rank before g have left in it.
RECURSIVE AffinityCpu(_, _, _, _, _)
AffinityCpu(sys, table, rank, g, cpu) ==
  IF g >= sys[GPU].count THEN cpu
  ELSE IF sys[GPU].nodes[g].gpu.rank = rank
    THEN AffinityCpu(sys, table, rank, g + 1, Ptr(CPU, CloserCpu(sys, table[g], 0, -1, 0)))
  ELSE AffinityCpu(sys, table, rank, g + 1, cpu)

\* The mask that never looks at NCCL_IGNORE_CPU_AFFINITY.
FinalMaskNoOverride(threadMask, cpuMask, ignore) ==
  threadMask \cap cpuMask

\* ignore: NCCL_IGNORE_CPU_AFFINITY.
FinalMask(threadMask, cpuMask, ignore) ==
  IF ignore THEN cpuMask ELSE threadMask \cap cpuMask

\* sched_getaffinity and sched_setaffinity are taken to succeed.
ncclTopoSetAffinity(sys, table, threadMask, rank, ignore) ==
  LET cpu == AffinityCpu(sys, table, rank, 0, NULL) IN
  IF cpu = NULL
    THEN [res |-> ncclInternalError, cpu |-> cpu, mask |-> threadMask, fault |-> "none"]
  ELSE IF cpu[2] < 0
    THEN [res |-> ncclSuccess, cpu |-> cpu, mask |-> threadMask,
          fault |-> "cpu_before_array"]
  ELSE LET cpuMask == NodeAt(sys, cpu).cpu.affinity
           finalMask == FinalMask(threadMask, cpuMask, ignore)
       IN [res |-> ncclSuccess, cpu |-> cpu,
           mask |-> IF Cardinality(finalMask) # 0 THEN finalMask ELSE threadMask,
           fault |-> "none"]

\* A graph of Len(ranks) GPUs and Len(masks) CPUs as createNode and the
\* descriptors' payload leave them. Every GPU is read below a cpu descriptor,
\* so a graph that has a GPU has a CPU.
AffinitySystem(ranks, masks) ==
  [ZeroSystem EXCEPT
     ![GPU] = [count |-> Len(ranks),
               nodes |-> [i \in Slots |->
                            IF i < Len(ranks)
                              THEN [CreateNodeInit(ZeroNode, GPU, 16 * (i + 1), Ptr(GPU, i))
                                      EXCEPT !.gpu = [rank |-> ranks[i + 1],
                                                      cudaCompCap |-> 70]]
                            ELSE ZeroNode]],
     ![CPU] = [count |-> Len(masks),
               nodes |-> [i \in Slots |->
                            IF i < Len(masks)
                              THEN [CreateNodeInit(ZeroNode, CPU, i, Ptr(CPU, i))
                                      EXCEPT !.cpu.affinity = masks[i + 1]]
                            ELSE ZeroNode]]]

InitAffinity ==
  /\ \E ranks \in SeqsUpTo(Ranks, 0, MaxNodes), masks \in SeqsUpTo(CpuMasks, 1, MaxNodes) :
       /\ system = AffinitySystem(ranks, masks)
       /\ \E table \in [0 .. Len(ranks) - 1 -> [0 .. Len(masks) - 1 -> HopCounts]] :
            hops = [g \in Slots |-> [c \in Slots |->
                      IF g < Len(ranks) /\ c < Len(masks) THEN table[g][c] ELSE 0]]
  /\ mask = Cores
  /\ NoComm
  /\ ret = NoCall
  /\ fault = "none"
  /\ steps = 0
  /\ pc = "affinity"
  /\ stack = <<>>
  /\ xml = <<>>
  /\ cursor = 1
  /\ nxml = 0

SetAffinity ==
  /\ pc = "affinity" /\ fault = "none"
  /\ \E rank \in Ranks, ignore \in BOOLEAN :
       LET r == ncclTopoSetAffinity(system, hops, mask, rank, ignore) IN
       /\ mask' = r.mask
       /\ fault' = r.fault
       /\ ret' = [op |-> "setAffinity", args |-> <<rank, ignore>>, res |-> r.res,
                  node |-> r.cpu]
  /\ UNCHANGED <<system, steps, buildVars, hops, dumpVars>>

NextAffinity == SetAffinity

SpecAffinity == InitAffinity /\ [][NextAffinity]_vars

\* ------------------------------------------------------------------------
\* ncclTopoGetSystem: the dump of the description
\* ------------------------------------------------------------------------
MaxRanks == 3
\* Values NCCL_TOPO_DUMP_FILE_RANK can be given: ranks, and numbers that are none.
DumpFileRanks == -1 .. MaxRanks

\* The gate that lets every rank through.
TopoDumpGateAnyRank(e, rank) == e.NCCL_TOPO_DUMP_FILE

\* xmlTopoFile && comm->rank == ncclParamTopoDumpFileRank()
TopoDumpGate(e, rank) ==
  e.NCCL_TOPO_DUMP_FILE /\ rank = e.NCCL_TOPO_DUMP_FILE_RANK

\* The ranks of one communicator, started with the same environment.
InitComm ==
  /\ nRanks \in 1 .. MaxRanks
  /\ env \in [NCCL_TOPO_DUMP_FILE : BOOLEAN, NCCL_TOPO_DUMP_FILE_RANK : DumpFileRanks]
  /\ ran = {}
  /\ dumped = {}
  /\ system = ZeroSystem
  /\ ret = NoCall
  /\ fault = "none"
  /\ steps = 0
  /\ pc = "comm"
  /\ stack = <<>>
  /\ xml = <<>>
  /\ cursor = 1
  /\ nxml = 0
  /\ mask = Cores
  /\ hops = NoHops

\* One rank goes through ncclTopoGetSystem; the detection before the dump and
\* the write are taken to succeed, the graph it builds is its own.
GetSystem ==
  /\ pc = "comm"
  /\ \E rank \in (0 .. nRanks - 1) \ ran :
       /\ ran' = ran \cup {rank}
       /\ dumped' = IF TopoDumpGate(env, rank) THEN dumped \cup {rank} ELSE dumped
       /\ ret' = [op |-> "getSystem", args |-> <<rank>>, res |-> ncclSuccess,
                  node |-> NULL]
  /\ UNCHANGED <<system, fault, steps, buildVars, affinityVars, nRanks, env>>

NextComm == GetSystem

SpecComm == InitComm /\ [][NextComm]_vars

\* ------------------------------------------------------------------------
\* Properties
\* ------------------------------------------------------------------------
LiveLinks(sys, p) == 0 .. (NodeAt(sys, p).nlinks - 1)
\* The live entries of p's list that lead to remNode with the given link type.
EntriesTo(sys, p, remNode, type) ==
  {l \in LiveLinks(sys, p) :
     /\ NodeAt(sys, p).links[l].remNode = remNode
     /\ NodeAt(sys, p).links[l].type = type}
WidthTo(sys, p, remNode, type) ==
  IF EntriesTo(sys, p, remNode, type) = {} THEN 0
  ELSE NodeAt(sys, p).links[CHOOSE l \in EntriesTo(sys, p, remNode, type) : TRUE].width

LinksSorted(sys, p) ==
  \A l \in LiveLinks(sys, p) :
    l > 0 => NodeAt(sys, p).links[l - 1].width >= NodeAt(sys, p).links[l].width

\* C1: after every call of a sequence of createNode and connectNodes calls on a
\* fresh system, every node's link list is non-increasing by width.
C1_LinksNonIncreasing ==
  \A p \in LivePtrs(system) : LinksSorted(system, p)

\* A connectNodes call has just added width to an existing entry, and the entry
\* now stands before one that was wider than it before the call.
C1_Witness ==
  /\ ret.op = "connectNodes"
  /\ fault = "none"
  /\ \E l \in EntriesTo(system, ret.args[1], ret.args[2], ret.args[3]) :
       LET n == NodeAt(system, ret.args[1]) IN
       /\ n.links[l].width > ret.args[4]
       /\ l + 1 < n.nlinks
       /\ n.links[l + 1].width > n.links[l].width - ret.args[4]

NoDuplicateLinks ==
  \A p \in LivePtrs(system) :
    \A l1, l2 \in LiveLinks(system, p) :
      (/\ NodeAt(system, p).links[l1].remNode = NodeAt(system, p).links[l2].remNode
       /\ NodeAt(system, p).links[l1].type = NodeAt(system, p).links[l2].type)
      => l1 = l2

\* What one connectNodes(a, b, kind, w) call does to a's list: the (b, kind) entry
\* exists once and has gained w, every other pair keeps its width.
ConnectAggregates ==
  (ret'.op = "connectNodes" /\ fault' = "none") =>
    LET a == ret'.args[1]
        b == ret'.args[2]
        kind == ret'.args[3]
        w == ret'.args[4]
    IN /\ Cardinality(EntriesTo(system', a, b, kind)) = 1
       /\ WidthTo(system', a, b, kind) = WidthTo(system, a, b, kind) + w
       /\ NodeAt(system', a).nlinks =
            NodeAt(system, a).nlinks + (IF EntriesTo(system, a, b, kind) = {} THEN 1 ELSE 0)
       /\ \A p \in LivePtrs(system), q \in LivePtrs(system),
             t \in {LINK_LOC, LINK_NVL, LINK_PCI} :
            <<p, q, t>> # <<a, b, kind>> =>
              WidthTo(system', p, q, t) = WidthTo(system, p, q, t)

\* C2: in a sequence of createNode and connectNodes calls no list ever holds two
\* entries for one (remote node, kind) pair, and each connectNodes(a, b, kind, w)
\* adds w to the width of the one (b, kind) entry of a, so that after k calls its
\* width is w_1 + ... + w_k.
C2_OneEntrySummedWidth ==
  [](NoDuplicateLinks) /\ [][ConnectAggregates]_vars

\* The (b, kind) entry of a has been connected at least twice, between connections
\* of a to another pair.
C2_Witness ==
  /\ ret.op = "connectNodes"
  /\ fault = "none"
  /\ WidthTo(system, ret.args[1], ret.args[2], ret.args[3]) > ret.args[4]
  /\ \E l \in LiveLinks(system, ret.args[1]) :
       LET e == NodeAt(system, ret.args[1]).links[l] IN
       /\ e.type # LINK_LOC
       /\ <<e.remNode, e.type>> # <<ret.args[2], ret.args[3]>>

NumWithId(sys, type, id) ==
  Cardinality({i \in LiveSlots(sys, type) : sys[type].nodes[i].id = id})

IdsUnique(sys, type) ==
  \A i, j \in LiveSlots(sys, type) :
    sys[type].nodes[i].id = sys[type].nodes[j].id => i = j

\* One get-or-create call: a hit changes nothing and returns the node that is
\* there, a miss that succeeds leaves exactly one node with the id.
GetOrCreateStep ==
  ret'.op = "getOrCreate" =>
    LET type == ret'.args[1]
        id == ret'.args[2]
    IN IF NumWithId(system, type, id) > 0
         THEN /\ system' = system
              /\ ret'.res = ncclSuccess
              /\ ret'.node \in LivePtrs(system)
              /\ ret'.node[1] = type
              /\ NodeAt(system, ret'.node).id = id
       ELSE ret'.res = ncclSuccess =>
              /\ NumWithId(system', type, id) = 1
              /\ NodeAt(system', ret'.node).id = id

\* One lookup: success either way; on a miss the caller's pointer keeps its value.
GetNodeStep ==
  ret'.op = "getNode" =>
    LET type == ret'.args[1]
        id == ret'.args[2]
        node == ret'.args[3]
    IN /\ ret'.res = ncclSuccess
       /\ system' = system
       /\ IF NumWithId(system, type, id) = 0 THEN ret'.node = node
          ELSE /\ ret'.node \in LivePtrs(system)
               /\ ret'.node[1] = type
               /\ NodeAt(system, ret'.node).id = id

\* C4: when nodes are created by get-or-create only (look up, create on a miss),
\* however often it is repeated for one (type, id), the type's array holds exactly
\* one node with that id; a lookup that misses returns success and leaves the
\* caller's pointer as it was.
C4_GetOrCreateIdempotent ==
  /\ [](\A type \in NodeTypes : IdsUnique(system, type))
  /\ [][GetOrCreateStep /\ GetNodeStep]_vars

\* A get-or-create has returned a node that was already there: it is not the last
\* of its array.
C4_Witness ==
  /\ ret.op = "getOrCreate"
  /\ ret.res = ncclSuccess
  /\ ret.node # NULL
  /\ ret.node[2] < system[ret.node[1]].count - 1

\* One createNode call: on a full array a failure that changes nothing, otherwise
\* one node appended at the end.
CreateNodeStep ==
  ret'.op = "createNode" =>
    LET type == ret'.args[1]
        id == ret'.args[2]
        c == system[type].count
    IN IF c = MaxNodes
         THEN ret'.res = ncclInternalError /\ system' = system
       ELSE /\ ret'.res = ncclSuccess
            /\ ret'.node = Ptr(type, c)
            /\ system'[type].count = c + 1
            /\ system'[type].nodes[c].type = type
            /\ system'[type].nodes[c].id = id
            /\ \A i \in Slots \ {c} : system'[type].nodes[i] = system[type].nodes[i]
            /\ \A t \in NodeTypes \ {type} : system'[t] = system[t]

\* C6: no array ever holds more nodes than its capacity; createNode on a full
\* array fails and leaves the counts, nodes and links as they were, and on an
\* array with room appends one node and adds one to the count.
C6_CreateWithinCapacity ==
  /\ [](\A type \in NodeTypes : system[type].count <= MaxNodes)
  /\ [][CreateNodeStep]_vars

\* createNode has just failed on a full array.
C6_Witness ==
  /\ ret.op = "createNode"
  /\ ret.res = ncclInternalError
  /\ system[ret.args[1]].count = MaxNodes

\* The live part of p's link list, first entry first.
LinkSeq(sys, p) == [k \in 1 .. NodeAt(sys, p).nlinks |-> NodeAt(sys, p).links[k - 1]]

\* Where a node that survives the removal of del is stored afterwards.
Moved(del, p) == IF p[1] = del[1] /\ p[2] > del[2] THEN Ptr(p[1], p[2] - 1) ELSE p

SameNode(sys1, p1, sys2, p2) ==
  /\ NodeAt(sys1, p1).type = NodeAt(sys2, p2).type
  /\ NodeAt(sys1, p1).id = NodeAt(sys2, p2).id

\* What one removeNode call does: the array of the removed node loses it, and
\* every other node keeps, in their order and with their kind and width, exactly
\* its entries that did not lead to the removed node, each leading to the node it
\* led to before, at the slot where that node is now.
RemoveNodeStep ==
  ret'.op = "removeNode" =>
    LET del == ret'.args
        Kept(e) == e.remNode # del
    IN /\ ret'.res = ncclSuccess
       /\ \A t \in NodeTypes :
            system'[t].count = system[t].count - (IF t = del[1] THEN 1 ELSE 0)
       /\ \A q \in LivePtrs(system) \ {del} :
            LET old == SelectSeq(LinkSeq(system, q), Kept)
                new == LinkSeq(system', Moved(del, q))
            IN /\ Moved(del, q) \in LivePtrs(system')
               /\ SameNode(system', Moved(del, q), system, q)
               /\ Len(new) = Len(old)
               /\ \A k \in 1 .. Len(old) :
                    /\ new[k].type = old[k].type
                    /\ new[k].width = old[k].width
                    /\ new[k].remNode = Moved(del, old[k].remNode)
                    /\ new[k].remNode \in LivePtrs(system')
                    /\ SameNode(system', new[k].remNode, system, old[k].remNode)

\* C3: removeNode on a graph built by createNode and connectNodes calls leaves no
\* entry that leads to the removed node in any surviving node's list, and every
\* surviving entry leads to the node (same type, same id) it led to before, at its
\* new slot when that node was stored above the removed one; a GPU's entry to
\* itself follows the GPU.
C3_RemoveKeepsLinks ==
  [][RemoveNodeStep]_vars

\* The first GPU has been removed: the GPU stored after it is now in its slot,
\* its list has lost an entry (the copy behind the end is what is left of it) and
\* its entry to itself leads to the slot where it now is.
C3_Witness ==
  /\ ret.op = "removeNode"
  /\ pc = "trimmed"
  /\ ret.args = Ptr(GPU, 0)
  /\ system[GPU].count >= 1
  /\ LET n == NodeAt(system, Ptr(GPU, 0)) IN
     /\ n.nlinks < MaxLinks
     /\ n.links[n.nlinks].remNode # NULL
     /\ \E l \in LiveLinks(system, Ptr(GPU, 0)) :
          n.links[l].type = LINK_LOC /\ n.links[l].remNode = Ptr(GPU, 0)

\* C5: while and after a description is read, also one in which a bus id, NUMA id
\* or net device index comes twice, no two nodes of one type have the same id.
C5_IdsUniqueInBuild ==
  \A type \in NodeTypes : IdsUnique(system, type)

\* The PCI spanning tree below the CPUs, as the set of <<node, parent>> pairs:
\* a node's parent is the node nearer to a CPU that it has a PCI-kind entry to.
PciNeighbours(sys, p) ==
  {NodeAt(sys, p).links[l].remNode :
     l \in {k \in LiveLinks(sys, p) : NodeAt(sys, p).links[k].type = LINK_PCI}}

RECURSIVE PciTreeFrom(_, _, _)
PciTreeFrom(sys, seen, edges) ==
  LET new == {e \in (LivePtrs(sys) \ seen) \X seen : e[2] \in PciNeighbours(sys, e[1])}
  IN IF new = {} THEN edges
     ELSE PciTreeFrom(sys, seen \cup {e[1] : e \in new}, edges \cup new)

PciTree(sys) == PciTreeFrom(sys, {p \in LivePtrs(sys) : p[1] = CPU}, {})

LastLink(sys, p) == NodeAt(sys, p).links[NodeAt(sys, p).nlinks - 1]

\* C7: after sortSystem has run on a built graph, the last entry of every
\* non-root node's list is its PCI-kind entry to its parent in the PCI spanning
\* tree, also when the node has an entry of another kind to the same parent.
C7_ParentLinkLast ==
  pc = "done" =>
    \A e \in PciTree(system) :
      /\ LastLink(system, e[1]).type = LINK_PCI
      /\ LastLink(system, e[1]).remNode = e[2]

\* C8 as the specification states it: in the graph of a complete build every
\* node's list is non-increasing by width.
C8_SortedAfterBuild ==
  pc = "done" => \A p \in LivePtrs(system) : LinksSorted(system, p)

\* p's list without its last entry is non-increasing by width.
SortedButLast(sys, p) ==
  \A l \in LiveLinks(sys, p) :
    (l > 0 /\ l < NodeAt(sys, p).nlinks - 1) =>
      NodeAt(sys, p).links[l - 1].width >= NodeAt(sys, p).links[l].width

\* C8: every list is non-increasing by width until sortSystem runs; in the graph
\* of a complete build the lists of the CPU, NVS and NET nodes still are, and
\* every other list is non-increasing up to its last entry, which is the entry
\* that the sort has moved behind the others whatever its width.
C8_SortedUpToMovedLink ==
  /\ pc \in {"ingest", "nvlinks", "sort", "failed"} =>
       \A p \in LivePtrs(system) : LinksSorted(system, p)
  /\ pc = "done" =>
       \A p \in LivePtrs(system) :
         /\ SortedButLast(system, p)
         /\ p[1] \in {CPU, NVS, NET} => LinksSorted(system, p)

\* A complete build in which the last entry of a list is wider than the entry
\* before it.
C8_Witness ==
  /\ pc = "done"
  /\ \E p \in LivePtrs(system) :
       /\ NodeAt(system, p).nlinks >= 3
       /\ ~LinksSorted(system, p)

GpuLoop(sys, p) ==
  \E l \in LiveLinks(sys, p) :
    /\ NodeAt(sys, p).links[l].type = LINK_LOC
    /\ NodeAt(sys, p).links[l].remNode = p
    /\ NodeAt(sys, p).links[l].width = LOC_WIDTH

\* C9: every GPU node has, from its creation on and whatever is connected,
\* sorted or removed around it, a loopback-kind entry of the local width that
\* leads to the GPU itself; its degree is at least 1.
C9_GpuKeepsLoopback ==
  \A p \in LivePtrs(system) :
    p[1] = GPU => (NodeAt(system, p).nlinks >= 1 /\ GpuLoop(system, p))

\* The first GPU of a built and sorted graph has been removed; the GPU now in its
\* slot has an NVLink entry, and its parent entry last.
C9_Witness ==
  /\ pc = "trimmed"
  /\ ret.args = Ptr(GPU, 0)
  /\ system[GPU].count >= 1
  /\ \E l \in LiveLinks(system, Ptr(GPU, 0)) :
       NodeAt(system, Ptr(GPU, 0)).links[l].type = LINK_NVL
  /\ LastLink(system, Ptr(GPU, 0)).type = LINK_PCI

\* Nodes of one type whose ids differ only in the low 4 bits.
SameDevice(sys, type, i, j) ==
  sys[type].nodes[i].id \div 16 = sys[type].nodes[j].id \div 16

AddNicPciStep ==
  (ret'.op = "addPciNic" /\ ret'.res = ncclSuccess /\ fault' = "none") =>
    LET id == (ret'.args[1] \div 16) * 16 IN
    /\ NumWithId(system', NIC, id) = 1
    /\ system'[NIC].count =
         system[NIC].count + (IF NumWithId(system, NIC, id) = 0 THEN 1 ELSE 0)

\* A gpu-class descriptor with a rank, or a bridge: always one more node, whose
\* id is the whole bus id.
AddGpuOrBridgeStep ==
  /\ (ret'.op = "addPciGpu" /\ ret'.args[2] /\ ret'.res = ncclSuccess) =>
       /\ system'[GPU].count = system[GPU].count + 1
       /\ system'[GPU].nodes[system[GPU].count].id = ret'.args[1]
  /\ (ret'.op = "openPci" /\ ret'.res = ncclSuccess) =>
       /\ system'[PCI].count = system[PCI].count + 1
       /\ system'[PCI].nodes[system[PCI].count].id = ret'.args[1]

LanesTimesRate(xmlPci) ==
  LET lanes == IF xmlPci.link_width = 0 THEN 16 ELSE xmlPci.link_width
      rate == CASE xmlPci.link_speed \in {"", "Unknown speed", "8 GT/s"} -> 60
                [] xmlPci.link_speed = "2.5 GT/s" -> 15
                [] xmlPci.link_speed = "5 GT/s" -> 30
                [] xmlPci.link_speed = "16 GT/s" -> 120
  IN (lanes * rate) \div 80

\* node and parent have exactly one PCI-kind entry to each other, of width w.
PciLinked(sys, node, parent, w) ==
  /\ Cardinality(EntriesTo(sys, node, parent, LINK_PCI)) = 1
  /\ Cardinality(EntriesTo(sys, parent, node, LINK_PCI)) = 1
  /\ WidthTo(sys, node, parent, LINK_PCI) = w
  /\ WidthTo(sys, parent, node, LINK_PCI) = w

\* A pci descriptor has made a node: a bridge at its close, a gpu or a new nic
\* at once.
PciLinkStep ==
  (ret'.res = ncclSuccess /\ fault' = "none") =>
    /\ ret'.op = "closePci" =>
         PciLinked(system', ret'.args[1], ret'.args[2], LanesTimesRate(ret'.args[3]))
    /\ (ret'.op = "addPciGpu" /\ ret'.args[2]) =>
         /\ PciLinked(system', Ptr(GPU, system[GPU].count), Top, 12)
         /\ GpuLoop(system', Ptr(GPU, system[GPU].count))
    /\ (ret'.op = "addPciNic" /\ system'[NIC].count > system[NIC].count) =>
         PciLinked(system', Ptr(NIC, system[NIC].count), Top, 12)

RankGpus(rank) ==
  {g \in LiveSlots(system, GPU) : system[GPU].nodes[g].gpu.rank = rank}

LastRankGpu(rank) ==
  CHOOSE g \in RankGpus(rank) : \A h \in RankGpus(rank) : h <= g

\* C12: for a rank that has a GPU node the selector succeeds, and the CPU it
\* chooses has the minimum hop count from that GPU (from the last such GPU
\* when several carry the rank); no CPU of a lower index is at that distance.
C12_ClosestCpuLowestIndex ==
  (ret.op = "setAffinity" /\ RankGpus(ret.args[1]) # {}) =>
    LET row == hops[LastRankGpu(ret.args[1])]
        c == ret.node[2]
    IN /\ ret.res = ncclSuccess
       /\ ret.node[1] = CPU
       /\ c \in LiveSlots(system, CPU)
       /\ \A d \in LiveSlots(system, CPU) :
            /\ row[d] >= row[c]
            /\ row[d] = row[c] => d >= c

\* Two CPUs at the same distance and a farther-indexed tie: the first is chosen.
C12_Witness ==
  /\ ret.op = "setAffinity" /\ ret.res = ncclSuccess
  /\ system[CPU].count = 2 /\ system[GPU].count = 2
  /\ RankGpus(ret.args[1]) = {0}
  /\ hops[0][0] = 2 /\ hops[0][1] = 2
  /\ hops[1][0] = 2 /\ hops[1][1] = 1
  /\ ret.node = Ptr(CPU, 0)

SetAffinityStep ==
  ret'.op = "setAffinity" =>
    IF ret'.node = NULL THEN ret'.res = ncclInternalError /\ mask' = mask
    ELSE LET cpuMask == NodeAt(system, ret'.node).cpu.affinity
             wanted == IF ret'.args[2] THEN cpuMask ELSE mask \cap cpuMask
         IN /\ ret'.res = ncclSuccess
            /\ mask' = IF wanted = {} THEN mask ELSE wanted

\* C13: the selector applies the thread's mask intersected with the chosen
\* CPU's mask, or the CPU's mask alone under the override; an empty result
\* leaves the thread's mask as it was, and the call returns success.
C13_MaskIntersectedOrOverridden ==
  [][SetAffinityStep]_vars

\* An override has moved the thread to core 1, and a later call whose CPU
\* holds core 0 only met an empty intersection: success, mask untouched.
C13_Witness ==
  /\ ret.op = "setAffinity" /\ ret.res = ncclSuccess /\ ~ret.args[2]
  /\ ret.node # NULL
  /\ NodeAt(system, ret.node).cpu.affinity = {0}
  /\ mask = {1}


\* The node ncclTopoGetNode gives for the id: the first one stored with it.
FirstWithId(sys, type, id) ==
  LET found == {i \in LiveSlots(sys, type) : sys[type].nodes[i].id = id} IN
  Ptr(type, CHOOSE i \in found : \A j \in found : i <= j)

NvlWidth(sys, gpu, count) ==
  count * (IF NodeAt(sys, gpu).gpu.cudaCompCap = 60 THEN PASCAL_NVLINK_WIDTH
           ELSE VOLTA_NVLINK_WIDTH)

\* One more leaf from node to remNode: a single NVL entry, wider by w.
NvlAdded(node, remNode, w) ==
  /\ Cardinality(EntriesTo(system', node, remNode, LINK_NVL)) = 1
  /\ WidthTo(system', node, remNode, LINK_NVL) =
       WidthTo(system, node, remNode, LINK_NVL) + w

NvLinkStep ==
  (ret'.op = "addNvLink" /\ ret'.res = ncclSuccess /\ fault' = "none"
     /\ ret'.node # NULL) =>
    LET gpu == FirstWithId(system, GPU, ret'.args[1])
        remote == ret'.node
        w == NvlWidth(system, gpu, ret'.args[4])
    IN /\ NvlAdded(gpu, remote, w)
       /\ remote[1] # GPU => NvlAdded(remote, gpu, w)
       /\ (remote[1] = GPU /\ remote # gpu) =>
            LinkSeq(system', remote) = LinkSeq(system, remote)

\* C14: every nvlink leaf whose target is resolved adds its width to the one
\* NVL entry from the source GPU to the target; the target gets the same
\* added to its entry back exactly when it is not a GPU, and a target GPU's
\* list is left as it was, so a GPU-GPU link described once from each end
\* has one NVL entry each way of width count x rate.
C14_NvlForwardAndReverseUnlessGpu ==
  [][NvLinkStep]_vars

\* Two GPUs, each with a leaf of count 1 to the other: one entry of 21 each way.
C14_Witness ==
  /\ ret.op = "addNvLink" /\ ret.res = ncclSuccess /\ fault = "none"
  /\ nxml = 2
  /\ ret.args[1] = 17 /\ ret.node = Ptr(GPU, 0)
  /\ Cardinality(EntriesTo(system, Ptr(GPU, 0), Ptr(GPU, 1), LINK_NVL)) = 1
  /\ Cardinality(EntriesTo(system, Ptr(GPU, 1), Ptr(GPU, 0), LINK_NVL)) = 1
  /\ WidthTo(system, Ptr(GPU, 0), Ptr(GPU, 1), LINK_NVL) = VOLTA_NVLINK_WIDTH
  /\ WidthTo(system, Ptr(GPU, 1), Ptr(GPU, 0), LINK_NVL) = VOLTA_NVLINK_WIDTH


NvsLeafStep ==
  (ret'.op = "addNvLink" /\ ret'.res = ncclSuccess /\ fault' = "none"
     /\ kvConvertToInt(ret'.args[2], kvDictPciClass) \notin {GPU, CPU}) =>
    /\ ret'.node = Ptr(NVS, 0)
    /\ system[NVS].count = 1 => NodeAt(system', ret'.node).id = NodeAt(system, ret'.node).id
    /\ EntriesTo(system', FirstWithId(system, GPU, ret'.args[1]), ret'.node, LINK_NVL) # {}

\* C15: a build never holds more than one NVSwitch node; every leaf whose
\* target class is neither GPU nor CPU links its GPU to the node in slot 0 of
\* the NVS array, which the first such leaf has created.
C15_OneSharedNvSwitch ==
  [][system'[NVS].count <= 1 /\ NvsLeafStep]_vars

\* Both GPUs have a leaf to a switch: one NVS node, an entry to each GPU.
C15_Witness ==
  /\ ret.op = "addNvLink" /\ ret.res = ncclSuccess /\ fault = "none"
  /\ system[NVS].count = 1
  /\ EntriesTo(system, Ptr(NVS, 0), Ptr(GPU, 0), LINK_NVL) # {}
  /\ EntriesTo(system, Ptr(NVS, 0), Ptr(GPU, 1), LINK_NVL) # {}
  /\ EntriesTo(system, Ptr(GPU, 0), Ptr(NVS, 0), LINK_NVL) # {}
  /\ EntriesTo(system, Ptr(GPU, 1), Ptr(NVS, 0), LINK_NVL) # {}


\* C16: an nvlink leaf that ends with no remote (its target bus id names no
\* GPU node, or no CPU is found over PCI links) makes the pass return a
\* failure.
C16_UnresolvedTargetFails ==
  (ret.op = "addNvLink" /\ fault = "none" /\ ret.node = NULL) =>
    ret.res = ncclInternalError


\* C17: when a pass of the build has failed, the system the caller's handle
\* refers to holds no node of the graph that was being built.
C17_NoPartialGraphOnFailure ==
  pc = "failed" => \A t \in NodeTypes : system[t].count = 0


LiveCpus == {Ptr(CPU, i) : i \in LiveSlots(system, CPU)}

\* The inter-socket width that goes with a CPU's architecture, vendor and model.
SysWidthOf(cpu) ==
  CASE cpu.arch = NCCL_TOPO_CPU_ARCH_POWER -> P9_WIDTH
    [] cpu.arch = NCCL_TOPO_CPU_ARCH_ARM -> ARM_WIDTH
    [] cpu.arch = NCCL_TOPO_CPU_ARCH_X86 /\ cpu.vendor = NCCL_TOPO_CPU_VENDOR_INTEL
         /\ cpu.model = NCCL_TOPO_CPU_TYPE_SKL -> SKL_QPI_WIDTH
    [] cpu.arch = NCCL_TOPO_CPU_ARCH_X86 /\ cpu.vendor = NCCL_TOPO_CPU_VENDOR_INTEL
         /\ cpu.model # NCCL_TOPO_CPU_TYPE_SKL -> QPI_WIDTH
    [] OTHER -> LOC_WIDTH

\* C18: after the CPU fabric pass every CPU node has, for every other CPU
\* node, exactly one LINK_SYS entry to it, of the width that goes with its own
\* architecture, vendor and model, and none to itself.
C18_CpusFullyConnected ==
  (pc \in {"sort", "done"} /\ fault = "none") =>
    \A a \in LiveCpus :
      /\ EntriesTo(system, a, a, LINK_SYS) = {}
      /\ \A b \in LiveCpus \ {a} :
           /\ Cardinality(EntriesTo(system, a, b, LINK_SYS)) = 1
           /\ WidthTo(system, a, b, LINK_SYS) = SysWidthOf(NodeAt(system, a).cpu)

\* A recent Intel socket and a Power socket: 12 one way, 32 the other.
C18_Witness ==
  /\ pc = "sort" /\ fault = "none"
  /\ system[CPU].count = 2
  /\ NodeAt(system, Ptr(CPU, 0)).cpu.model = NCCL_TOPO_CPU_TYPE_SKL
  /\ NodeAt(system, Ptr(CPU, 1)).cpu.arch = NCCL_TOPO_CPU_ARCH_POWER
  /\ WidthTo(system, Ptr(CPU, 0), Ptr(CPU, 1), LINK_SYS) = 12
  /\ WidthTo(system, Ptr(CPU, 1), Ptr(CPU, 0), LINK_SYS) = 32


CommRanks == 0 .. nRanks - 1

\* C19 as stated: with a dump file configured, once every rank has run
\* ncclTopoGetSystem exactly one has written the description, the one whose
\* rank is the configured dump rank, whatever that value is.
C19_ExactlyOneWriter ==
  (env.NCCL_TOPO_DUMP_FILE /\ ran = CommRanks) =>
    /\ Cardinality(dumped) = 1
    /\ dumped = {env.NCCL_TOPO_DUMP_FILE_RANK}

\* C19: the ranks that have written the description are those that have run
\* and whose rank is the configured dump rank, when a dump file is configured:
\* at most one, and none at all when the configured value is not a rank of
\* the communicator.
C19_OnlyTheDumpRankWrites ==
  /\ dumped = IF env.NCCL_TOPO_DUMP_FILE
                THEN ran \cap {env.NCCL_TOPO_DUMP_FILE_RANK}
              ELSE {}
  /\ Cardinality(dumped) <= 1
  /\ (env.NCCL_TOPO_DUMP_FILE /\ ran = CommRanks) =>
       dumped = CommRanks \cap {env.NCCL_TOPO_DUMP_FILE_RANK}

\* Three ranks, dump rank 1: all have run, rank 1 alone has written.
C19_Witness ==
  /\ env.NCCL_TOPO_DUMP_FILE /\ env.NCCL_TOPO_DUMP_FILE_RANK = 1
  /\ nRanks = 3 /\ ran = CommRanks
  /\ dumped = {1}


\* The CPU at the top of p's chain of parents in the PCI spanning tree.
RECURSIVE PciRoot(_, _)
PciRoot(sys, p) ==
  IF p[1] = CPU THEN p
  ELSE LET up == {e \in PciTree(sys) : e[1] = p} IN
       IF up = {} THEN NULL ELSE PciRoot(sys, (CHOOSE e \in up : TRUE)[2])

\* C20: an nvlink leaf of CPU class below a GPU node is resolved, and to the
\* CPU at the top of that GPU's chain of PCI parents, with any number of PCI
\* switches between the two.
C20_CpuLeafFindsNearestCpu ==
  (ret.op = "addNvLink" /\ ret.args[2] = "0x068001"
     /\ \E i \in LiveSlots(system, GPU) : system[GPU].nodes[i].id = ret.args[1]) =>
    /\ fault = "none"
    /\ ret.res = ncclSuccess
    /\ ret.node = PciRoot(system, FirstWithId(system, GPU, ret.args[1]))


RanklessGpuStep ==
  (ret'.op = "addPciGpu" /\ ~ret'.args[2]) =>
    /\ system' = system
    /\ ret'.res = ncclSuccess
    /\ fault' = "none"
    /\ pc' = "ingest"
    /\ stack' = stack

\* C21: a gpu-class pci descriptor whose gpu sub-descriptor has no rank
\* attribute leaves the whole system as it was (no node, no entry in any
\* list), returns success, and the walk goes on below the same parent.
C21_RanklessGpuSkipped ==
  [][RanklessGpuStep]_vars

\* A rankless gpu read below a CPU that already has a GPU: still one GPU, and
\* the CPU's list still holds the one entry.
C21_Witness ==
  /\ ret.op = "addPciGpu" /\ ~ret.args[2] /\ ret.res = ncclSuccess
  /\ pc = "ingest"
  /\ system[CPU].count = 1 /\ system[GPU].count = 1
  /\ NodeAt(system, Ptr(CPU, 0)).nlinks = 1
  /\ Len(xml) = 2


\* C22: every node's list ends at its length: the entries 0 .. nlinks - 1 have
\* a remote, and the entry at position nlinks, when the array has one, has
\* none.
C22_SentinelAtLength ==
  \A p \in LivePtrs(system) :
    /\ \A l \in LiveLinks(system, p) : NodeAt(system, p).links[l].remNode # NULL
    /\ NodeAt(system, p).nlinks < MaxLinks =>
         NodeAt(system, p).links[NodeAt(system, p).nlinks].remNode = NULL


\* C23: no list ever holds more entries than the array has room for next to
\* the terminating entry, and no connectNodes call writes outside the array.
C23_LinksWithinCapacity ==
  /\ fault # "links_overrun"
  /\ \A p \in LivePtrs(system) : NodeAt(system, p).nlinks <= MaxLinks - 1


\* C24: the search for the local CPU ends on every graph the first pass
\* builds: it never enters a node whose call is still open.
C24_FindLocalCpuTerminates ==
  fault # "findLocalCpu_recursion"


\* A slot as a node that has just been made should look: a GPU with its
\* self-loop and nothing else, any other node with no entry at all.
FreshNode(sys, p) ==
  LET n == NodeAt(sys, p) IN
  IF p[1] = GPU
    THEN /\ n.nlinks = 1
         /\ n.links[0] = [type |-> LINK_LOC, remNode |-> p, width |-> LOC_WIDTH]
         /\ \A l \in LinkSlots \ {0} : n.links[l] = ZeroLink
  ELSE /\ n.nlinks = 0
       /\ \A l \in LinkSlots : n.links[l] = ZeroLink

\* C25: the node a createNode call has just returned is fresh, also when a
\* node of its type has been removed before.
C25_CreatedNodeIsFresh ==
  (ret.op = "createNode" /\ ret.res = ncclSuccess) => FreshNode(system, ret.node)


\* new is old with at most one live entry taken out and put behind the other
\* live entries, which keep their order; nothing else of the node differs.
OneEntryMovedLast(old, new) ==
  /\ [new EXCEPT !.links = old.links] = old
  /\ \A k \in LinkSlots : k >= old.nlinks => new.links[k] = old.links[k]
  /\ \/ new.links = old.links
     \/ \E l \in 0 .. old.nlinks - 1 :
          \A k \in 0 .. old.nlinks - 1 :
            new.links[k] = IF k < l THEN old.links[k]
                           ELSE IF k < old.nlinks - 1 THEN old.links[k + 1]
                           ELSE old.links[l]

SortSystemStep ==
  (ret'.op = "sortSystem" /\ fault' = "none") =>
    /\ ret'.res = ncclSuccess
    /\ \A t \in NodeTypes :
         /\ system'[t].count = system[t].count
         /\ \A i \in Slots :
              IF i < system[t].count
                THEN OneEntryMovedLast(system[t].nodes[i], system'[t].nodes[i])
              ELSE system'[t].nodes[i] = system[t].nodes[i]

\* C26: sortSystem only reorders: every node keeps its link count and its
\* entries (remote, kind, width); at most one entry of a node is moved, to the
\* end of its list, and the others keep their order; counts, node arrays and
\* everything else in the nodes stay as they were.
C26_SortOnlyReorders ==
  [][SortSystemStep]_vars

\* The sort has run and has moved a bridge's wider uplink behind its child.
C26_Witness ==
  /\ pc = "done" /\ ret.op = "sortSystem" /\ fault = "none"
  /\ \E i \in LiveSlots(system, PCI) :
       LET n == system[PCI].nodes[i] IN
       /\ n.nlinks = 2
       /\ n.links[0].remNode[1] = GPU
       /\ n.links[1].remNode[1] = CPU
       /\ n.links[0].width < n.links[1].width

====
